---- MODULE Spec2Model ----
(***************************************************************************)
(* Model of the Spack recipe packages/pism/package.py (class Pism).        *)
(*                                                                         *)
(* The recipe is static metadata (versions, variants, dependency           *)
(* declarations) plus three callbacks the package manager invokes on a     *)
(* concrete spec: cmake_args, setup_environment and setup_run_environment. *)
(* The state is the concrete spec handed to the package object (self.spec),*)
(* its install prefix (self.prefix), the two environment-modification      *)
(* objects the callbacks write to, the values cmake_args has returned so   *)
(* far, and the set of dependency declarations whose `when` condition the  *)
(* spec satisfies.                                                         *)
(***************************************************************************)
EXTENDS Integers, Sequences, FiniteSets, TLC

VARIABLES spec, prefix, rets, spack_env, run_env, active

vars == <<spec, prefix, rets, spack_env, run_env, active>>

(***************************************************************************)
(* Bounds of the model.                                                    *)
(***************************************************************************)
\* how many times cmake_args is invoked on one package object
MaxCalls == 2
\* how many of the declared variants a spec handed to cmake_args may lack
MaxMissing == 1

(***************************************************************************)
(* Static metadata of the recipe.                                          *)
(***************************************************************************)
\* variant(...) declarations, by name with their defaults
VariantDefaults ==
    ("extra" :> FALSE) @@ ("shared" :> TRUE) @@ ("python" :> FALSE) @@
    ("icebin" :> FALSE) @@ ("proj" :> TRUE) @@ ("parallel-netcdf4" :> TRUE) @@
    ("parallel-netcdf3" :> FALSE) @@ ("parallel-hdf5" :> FALSE) @@
    ("doc" :> FALSE) @@ ("examples" :> FALSE) @@ ("everytrace" :> FALSE)

Variants == DOMAIN VariantDefaults

(***************************************************************************)
(* Versions.  A version string is split into its numeric and alphabetic    *)
(* components; a component is a record so that numbers and words can be    *)
(* compared without mixing types.                                          *)
(***************************************************************************)
Num(n) == [isnum |-> TRUE, n |-> n, s |-> ""]
Word(s) == [isnum |-> FALSE, n |-> 0, s |-> s]

\* version(...) declarations
Versions ==
    ("develop" :> <<Word("develop")>>) @@
    ("2.0.2" :> <<Num(2), Num(0), Num(2)>>) @@
    ("1.2.2" :> <<Num(1), Num(2), Num(2)>>) @@
    ("1.1.4" :> <<Num(1), Num(1), Num(4)>>) @@
    ("0.7.x" :> <<Num(0), Num(7), Word("x")>>) @@
    ("icebin" :> <<Word("icebin")>>)

VersionNames == DOMAIN Versions

(***************************************************************************)
(* Inputs: what the package manager resolved.                              *)
(***************************************************************************)
\* os.path.join of a normalised directory (no trailing separator) and a
\* relative name, as used by Prefix attribute access and by MPI providers
join_path(a, b) == a \o "/" \o b

\* the attributes an MPI provider publishes on its spec: providers that
\* install compiler wrappers into their bin directory, a provider whose
\* wrappers carry other names, and a provider that hands out the
\* package manager's own compiler wrappers
WrapperProvider(m) ==
    [prefix |-> m,
     mpicc |-> join_path(join_path(m, "bin"), "mpicc"),
     mpicxx |-> join_path(join_path(m, "bin"), "mpicxx")]

MpiProviders ==
    { WrapperProvider("/opt/mpi"),
      WrapperProvider("/usr/local/openmpi"),
      [prefix |-> "/opt/ibm/spectrum_mpi",
       mpicc |-> "/opt/ibm/spectrum_mpi/bin/mpixlc",
       mpicxx |-> "/opt/ibm/spectrum_mpi/bin/mpixlC"],
      [prefix |-> "/opt/cray/pe/mpt",
       mpicc |-> "/spack/lib/spack/env/gcc/gcc",
       mpicxx |-> "/spack/lib/spack/env/gcc/g++"] }

\* spec[name] resolves over the dependencies present in the concrete spec
DepMaps == { <<>> } \cup { [d \in {"mpi"} |-> m] : m \in MpiProviders }

\* install prefixes of the package itself
Prefixes == { "/opt/pism", "/usr/local", "/home/user/spack/opt/pism-2.0.2" }

\* variant maps of concrete specs: every declared variant has a value
CompleteVariantMaps == [Variants -> BOOLEAN]

\* variant maps lacking between 1 and MaxMissing declared variants
PartialVariantMaps ==
    UNION { [Variants \ M -> BOOLEAN] :
              M \in { S \in SUBSET Variants :
                        Cardinality(S) >= 1 /\ Cardinality(S) <= MaxMissing } }

(***************************************************************************)
(* Results of a call: a returned value or a raised exception.              *)
(***************************************************************************)
Return(v) == [ok |-> TRUE, value |-> v, exc |-> ""]
Raise(e) == [ok |-> FALSE, value |-> <<>>, exc |-> e]

\* faulty variant test: `'name' in spec.variants` looks the name up and
\* ignores the value
HasVariantNameOnly(s, name) == name \in DOMAIN s.variants

\* `'+name' in spec`: an anonymous constraint is checked against the root
\* spec only; a concrete spec satisfies +name when it carries the variant
\* and its value is True
HasVariant(s, name) ==
    name \in DOMAIN s.variants /\ s.variants[name]

\* 'YES' if '+name' in spec else 'NO'
YesNo(s, name) == IF HasVariant(s, name) THEN "YES" ELSE "NO"

\* '<text>%s' % arg
PercentS(text, arg) == text \o arg

(***************************************************************************)
(* Faulty variants of the argument list, used to test the properties.      *)
(***************************************************************************)
\* the eleven variant flags as the recipe writes them
VariantFlagsAsWritten(s) ==
    << PercentS("-DPism_BUILD_EXTRA_EXECS=", YesNo(s, "extra")),
       PercentS("-DBUILD_SHARED_LIBS=", YesNo(s, "shared")),
       PercentS("-DPism_BUILD_PYTHON_BINDINGS=", YesNo(s, "python")),
       PercentS("-DPism_BUILD_ICEBIN=", YesNo(s, "icebin")),
       PercentS("-DPism_USE_PROJ=", YesNo(s, "proj")),
       PercentS("-DPism_USE_PARALLEL_NETCDF4=", YesNo(s, "parallel-netcdf4")),
       PercentS("-DPism_USE_PNETCDF=", YesNo(s, "parallel-netcdf3")),
       PercentS("-DPism_USE_PARALLEL_HDF5=", YesNo(s, "parallel-hdf5")),
       PercentS("-DPism_BUILD_PDFS=", YesNo(s, "doc")),
       PercentS("-DPism_INSTALL_EXAMPLES=", YesNo(s, "examples")),
       PercentS("-DPism_USE_EVERYTRACE=", YesNo(s, "everytrace")) >>

\* the commented-out Fortran compiler line left enabled
cmake_args_with_fortran(s) ==
    IF "mpi" \notin DOMAIN s.deps
    THEN Raise("KeyError")
    ELSE Return(
      << PercentS("-DCMAKE_C_COMPILER=", s.deps["mpi"].mpicc),
         PercentS("-DCMAKE_CXX_COMPILER=", s.deps["mpi"].mpicxx),
         PercentS("-DCMAKE_Fortran_COMPILER=", s.deps["mpi"].mpicc) >>
      \o VariantFlagsAsWritten(s))

\* the PnetCDF flag testing the variant of the line above it
cmake_args_copy_paste(s) ==
    IF "mpi" \notin DOMAIN s.deps
    THEN Raise("KeyError")
    ELSE Return(
      << PercentS("-DCMAKE_C_COMPILER=", s.deps["mpi"].mpicc),
         PercentS("-DCMAKE_CXX_COMPILER=", s.deps["mpi"].mpicxx) >>
      \o [VariantFlagsAsWritten(s) EXCEPT
            ![7] = PercentS("-DPism_USE_PNETCDF=", YesNo(s, "parallel-netcdf4"))])

\* the compiler flags left out when the spec has no mpi
cmake_args_lenient(s) ==
    IF "mpi" \notin DOMAIN s.deps
    THEN Return(VariantFlagsAsWritten(s))
    ELSE Return(
      << PercentS("-DCMAKE_C_COMPILER=", s.deps["mpi"].mpicc),
         PercentS("-DCMAKE_CXX_COMPILER=", s.deps["mpi"].mpicxx) >>
      \o VariantFlagsAsWritten(s))

\* the C wrapper handed to both compiler flags
cmake_args_same_wrapper(s) ==
    IF "mpi" \notin DOMAIN s.deps
    THEN Raise("KeyError")
    ELSE Return(
      << PercentS("-DCMAKE_C_COMPILER=", s.deps["mpi"].mpicc),
         PercentS("-DCMAKE_CXX_COMPILER=", s.deps["mpi"].mpicc) >>
      \o VariantFlagsAsWritten(s))

\* the list display of cmake_args; its elements are evaluated in order and
\* spec['mpi'] raises KeyError when the spec has no such dependency
cmake_args_value(s) ==
    IF "mpi" \notin DOMAIN s.deps
    THEN Raise("KeyError")
    ELSE Return(
      << PercentS("-DCMAKE_C_COMPILER=", s.deps["mpi"].mpicc),
         PercentS("-DCMAKE_CXX_COMPILER=", s.deps["mpi"].mpicxx),
         PercentS("-DPism_BUILD_EXTRA_EXECS=", YesNo(s, "extra")),
         PercentS("-DBUILD_SHARED_LIBS=", YesNo(s, "shared")),
         PercentS("-DPism_BUILD_PYTHON_BINDINGS=", YesNo(s, "python")),
         PercentS("-DPism_BUILD_ICEBIN=", YesNo(s, "icebin")),
         PercentS("-DPism_USE_PROJ=", YesNo(s, "proj")),
         PercentS("-DPism_USE_PARALLEL_NETCDF4=", YesNo(s, "parallel-netcdf4")),
         PercentS("-DPism_USE_PNETCDF=", YesNo(s, "parallel-netcdf3")),
         PercentS("-DPism_USE_PARALLEL_HDF5=", YesNo(s, "parallel-hdf5")),
         PercentS("-DPism_BUILD_PDFS=", YesNo(s, "doc")),
         PercentS("-DPism_INSTALL_EXAMPLES=", YesNo(s, "examples")),
         PercentS("-DPism_USE_EVERYTRACE=", YesNo(s, "everytrace")) >>)

(***************************************************************************)
(* Dependency declarations and their `when` conditions.                    *)
(***************************************************************************)
\* the version words that compare greater than every release
infinity_versions == <<"develop">>

IsInfinity(c) == ~c.isnum /\ \E i \in DOMAIN infinity_versions : infinity_versions[i] = c.s

\* the alphabetic components occurring in the declared versions, in
\* lexicographic order (the order Python compares strings in)
WordOrder == <<"icebin", "x">>

WordIndex(w) == CHOOSE i \in DOMAIN WordOrder : WordOrder[i] = w

\* comparison of two differing version components: an infinity version is
\* newer than anything else, numbers are newer than letters, and like
\* compares with like
ComponentLess(a, b) ==
    IF IsInfinity(a) THEN FALSE
    ELSE IF IsInfinity(b) THEN TRUE
    ELSE IF a.isnum # b.isnum THEN b.isnum
    ELSE IF a.isnum THEN a.n < b.n
    ELSE WordIndex(a.s) < WordIndex(b.s)

Min(m, n) == IF m < n THEN m ELSE n

\* Version.__lt__: the first differing component decides; with an equal
\* common prefix the version with more components is the newer one
VersionLess(v, w) ==
    LET common == 1 .. Min(Len(v), Len(w))
        diff == { i \in common : v[i] # w[i] }
    IN  IF diff = {}
        THEN Len(v) < Len(w)
        ELSE LET i == CHOOSE j \in diff : \A k \in diff : j <= k
             IN  ComponentLess(v[i], w[i])

\* `v in p` for versions: p is a prefix of v (1.0.5 is in 1.0)
VersionInFamily(v, p) ==
    Len(p) <= Len(v) /\ \A i \in 1 .. Len(p) : v[i] = p[i]

\* an open end of a version range
NoVersion == <<>>

\* VersionRange.__contains__ for a single version
InRange(v, lo, hi) ==
    /\ \/ lo = NoVersion
       \/ lo = v
       \/ VersionLess(lo, v)
       \/ VersionInFamily(v, lo)
    /\ \/ hi = NoVersion
       \/ hi = v
       \/ VersionLess(v, hi)
       \/ VersionInFamily(v, hi)

Always == [lo |-> NoVersion, hi |-> NoVersion, variant |-> ""]
WhenVariant(name) == [lo |-> NoVersion, hi |-> NoVersion, variant |-> name]

\* the declarations with the condition on everytrace forgotten
DeclarationsEverytraceAlways ==
    << [pkg |-> "fftw", constraint |-> "", when |-> Always, type |-> "link"],
       [pkg |-> "gsl", constraint |-> "", when |-> Always, type |-> "link"],
       [pkg |-> "mpi", constraint |-> "", when |-> Always, type |-> "link"],
       [pkg |-> "netcdf-c", constraint |-> "", when |-> Always, type |-> "link"],
       [pkg |-> "petsc", constraint |-> "", when |-> Always, type |-> "link"],
       [pkg |-> "udunits", constraint |-> "", when |-> Always, type |-> "link"],
       [pkg |-> "proj", constraint |-> "@6:", when |-> Always, type |-> "link"],
       [pkg |-> "everytrace", constraint |-> "", when |-> Always, type |-> "link"],
       [pkg |-> "cmake", constraint |-> "@3.1:", when |-> Always, type |-> "build"],
       [pkg |-> "python", constraint |-> "",
        when |-> WhenVariant("python"), type |-> "extends"],
       [pkg |-> "python", constraint |-> "@2.7:2.8,3.3:",
        when |-> [lo |-> <<Num(1), Num(1)>>, hi |-> NoVersion, variant |-> "python"],
        type |-> "link"],
       [pkg |-> "python", constraint |-> "@2.7:2.8",
        when |-> [lo |-> NoVersion, hi |-> <<Num(1), Num(0)>>, variant |-> "python"],
        type |-> "link"],
       [pkg |-> "py-matplotlib", constraint |-> "",
        when |-> WhenVariant("python"), type |-> "link"],
       [pkg |-> "py-numpy", constraint |-> "",
        when |-> WhenVariant("python"), type |-> "link"] >>

\* the declarations with the older python range reaching up to 1.1
DeclarationsOverlappingRanges ==
    << [pkg |-> "fftw", constraint |-> "", when |-> Always, type |-> "link"],
       [pkg |-> "gsl", constraint |-> "", when |-> Always, type |-> "link"],
       [pkg |-> "mpi", constraint |-> "", when |-> Always, type |-> "link"],
       [pkg |-> "netcdf-c", constraint |-> "", when |-> Always, type |-> "link"],
       [pkg |-> "petsc", constraint |-> "", when |-> Always, type |-> "link"],
       [pkg |-> "udunits", constraint |-> "", when |-> Always, type |-> "link"],
       [pkg |-> "proj", constraint |-> "@6:", when |-> Always, type |-> "link"],
       [pkg |-> "everytrace", constraint |-> "",
        when |-> WhenVariant("everytrace"), type |-> "link"],
       [pkg |-> "cmake", constraint |-> "@3.1:", when |-> Always, type |-> "build"],
       [pkg |-> "python", constraint |-> "",
        when |-> WhenVariant("python"), type |-> "extends"],
       [pkg |-> "python", constraint |-> "@2.7:2.8,3.3:",
        when |-> [lo |-> <<Num(1), Num(1)>>, hi |-> NoVersion, variant |-> "python"],
        type |-> "link"],
       [pkg |-> "python", constraint |-> "@2.7:2.8",
        when |-> [lo |-> NoVersion, hi |-> <<Num(1), Num(1)>>, variant |-> "python"],
        type |-> "link"],
       [pkg |-> "py-matplotlib", constraint |-> "",
        when |-> WhenVariant("python"), type |-> "link"],
       [pkg |-> "py-numpy", constraint |-> "",
        when |-> WhenVariant("python"), type |-> "link"] >>

\* depends_on(...) and extends(...) declarations, in source order
Declarations ==
    << [pkg |-> "fftw", constraint |-> "", when |-> Always, type |-> "link"],
       [pkg |-> "gsl", constraint |-> "", when |-> Always, type |-> "link"],
       [pkg |-> "mpi", constraint |-> "", when |-> Always, type |-> "link"],
       [pkg |-> "netcdf-c", constraint |-> "", when |-> Always, type |-> "link"],
       [pkg |-> "petsc", constraint |-> "", when |-> Always, type |-> "link"],
       [pkg |-> "udunits", constraint |-> "", when |-> Always, type |-> "link"],
       [pkg |-> "proj", constraint |-> "@6:", when |-> Always, type |-> "link"],
       [pkg |-> "everytrace", constraint |-> "",
        when |-> WhenVariant("everytrace"), type |-> "link"],
       [pkg |-> "cmake", constraint |-> "@3.1:", when |-> Always, type |-> "build"],
       [pkg |-> "python", constraint |-> "",
        when |-> WhenVariant("python"), type |-> "extends"],
       [pkg |-> "python", constraint |-> "@2.7:2.8,3.3:",
        when |-> [lo |-> <<Num(1), Num(1)>>, hi |-> NoVersion, variant |-> "python"],
        type |-> "link"],
       [pkg |-> "python", constraint |-> "@2.7:2.8",
        when |-> [lo |-> NoVersion, hi |-> <<Num(1), Num(0)>>, variant |-> "python"],
        type |-> "link"],
       [pkg |-> "py-matplotlib", constraint |-> "",
        when |-> WhenVariant("python"), type |-> "link"],
       [pkg |-> "py-numpy", constraint |-> "",
        when |-> WhenVariant("python"), type |-> "link"] >>

\* spec.satisfies(when) for a concrete spec
Satisfies(s, when) ==
    /\ InRange(Versions[s.version], when.lo, when.hi)
    /\ when.variant = "" \/ HasVariant(s, when.variant)

\* the declarations whose condition the spec meets
ActiveDeclarations(s) ==
    { i \in DOMAIN Declarations : Satisfies(s, Declarations[i].when) }

\* env.set(name, value)
EnvSet(env, name, value) ==
    [k \in DOMAIN env \cup {name} |-> IF k = name THEN value ELSE env[k]]

EmptyEnv == <<>>

(***************************************************************************)
(* Operations.                                                             *)
(***************************************************************************)
\* the argument list kept on the package object and extended by each call
cmake_args_accumulating ==
    /\ Len(rets) < MaxCalls
    /\ rets' = Append(rets,
                 IF rets # <<>> /\ rets[Len(rets)].ok /\ cmake_args_value(spec).ok
                 THEN Return(rets[Len(rets)].value \o cmake_args_value(spec).value)
                 ELSE cmake_args_value(spec))
    /\ UNCHANGED <<spec, prefix, spack_env, run_env, active>>

\* def cmake_args(self)
cmake_args ==
    /\ Len(rets) < MaxCalls
    /\ rets' = Append(rets, cmake_args_value(spec))
    /\ UNCHANGED <<spec, prefix, spack_env, run_env, active>>

\* the variable written to the run environment instead of the build one
setup_environment_into_run ==
    /\ run_env' = EnvSet(run_env, "I_MPI_FABRICS", "shm:tmi")
    /\ UNCHANGED <<spec, prefix, rets, spack_env, active>>

\* def setup_environment(self, spack_env, run_env)
setup_environment ==
    /\ spack_env' = EnvSet(spack_env, "I_MPI_FABRICS", "shm:tmi")
    /\ UNCHANGED <<spec, prefix, rets, run_env, active>>

\* def setup_run_environment(self, env)
setup_run_environment ==
    /\ run_env' = EnvSet(EnvSet(run_env, "PISM_PREFIX", prefix),
                         "PISM_BIN", join_path(prefix, "bin"))
    /\ UNCHANGED <<spec, prefix, rets, spack_env, active>>

\* the package manager evaluating the dependency declarations on the spec
evaluate_dependencies ==
    /\ active' = ActiveDeclarations(spec)
    /\ UNCHANGED <<spec, prefix, rets, spack_env, run_env>>

InitCommon ==
    /\ rets = <<>>
    /\ spack_env = EmptyEnv
    /\ run_env = EmptyEnv
    /\ active = {}

\* a build of a concrete spec of one release, with or without mpi resolved
Init ==
    /\ spec \in [version : {"2.0.2"}, variants : CompleteVariantMaps,
                 deps : DepMaps]
    /\ prefix = "/opt/pism"
    /\ InitCommon

Next ==
    \/ cmake_args
    \/ setup_environment

Spec == Init /\ [][Next]_vars

\* a spec that lacks some declared variants reaching cmake_args
InitPartial ==
    /\ spec \in [version : {"2.0.2"}, variants : PartialVariantMaps,
                 deps : { [d \in {"mpi"} |-> WrapperProvider("/opt/mpi")] }]
    /\ prefix = "/opt/pism"
    /\ InitCommon

SpecPartial == InitPartial /\ [][Next]_vars

\* every declared release with every variant assignment
InitDeps ==
    /\ spec \in [version : VersionNames, variants : CompleteVariantMaps,
                 deps : { [d \in {"mpi"} |-> WrapperProvider("/opt/mpi")] }]
    /\ prefix = "/opt/pism"
    /\ InitCommon

NextDeps == evaluate_dependencies

SpecDeps == InitDeps /\ [][NextDeps]_vars

\* an installed package being set up for use
InitRun ==
    /\ spec \in [version : {"2.0.2"}, variants : CompleteVariantMaps,
                 deps : DepMaps]
    /\ prefix \in Prefixes
    /\ InitCommon

NextRun ==
    \/ setup_run_environment
    \/ setup_environment

SpecRun == InitRun /\ [][NextRun]_vars

(***************************************************************************)
(* Properties.                                                             *)
(***************************************************************************)
\* the declared order of the variants and the flag each one drives
DeclaredOrder ==
    << "extra", "shared", "python", "icebin", "proj", "parallel-netcdf4",
       "parallel-netcdf3", "parallel-hdf5", "doc", "examples", "everytrace" >>

FlagNames ==
    << "Pism_BUILD_EXTRA_EXECS", "BUILD_SHARED_LIBS",
       "Pism_BUILD_PYTHON_BINDINGS", "Pism_BUILD_ICEBIN", "Pism_USE_PROJ",
       "Pism_USE_PARALLEL_NETCDF4", "Pism_USE_PNETCDF",
       "Pism_USE_PARALLEL_HDF5", "Pism_BUILD_PDFS", "Pism_INSTALL_EXAMPLES",
       "Pism_USE_EVERYTRACE" >>

\* a flag/value pair as it appears on the build tool's command line
Entry(flag, value) == "-D" \o flag \o "=" \o value

\* the compiler paths any provider can publish
CompilerPaths == UNION { {m.mpicc, m.mpicxx} : m \in MpiProviders }

MpiResolved == "mpi" \in DOMAIN spec.deps

\* the assignment of the worked scenario: shared, proj and
\* parallel-netcdf4 on, everything else off
ScenarioVariants ==
    [v \in Variants |-> v \in {"shared", "proj", "parallel-netcdf4"}]

\* C1: for a complete resolution with mpi resolved, cmake_args returns
\* exactly 13 entries: CMAKE_C_COMPILER, CMAKE_CXX_COMPILER, then the
\* eleven variant flags in the declared order, whatever the variants are.
C1_LengthAndOrder ==
    \A i \in DOMAIN rets :
        MpiResolved =>
            /\ rets[i].ok
            /\ Len(rets[i].value) = 13
            /\ rets[i].value[1] \in { Entry("CMAKE_C_COMPILER", p) : p \in CompilerPaths }
            /\ rets[i].value[2] \in { Entry("CMAKE_CXX_COMPILER", p) : p \in CompilerPaths }
            /\ \A k \in 1 .. 11 :
                 rets[i].value[2 + k] \in
                     { Entry(FlagNames[k], "YES"), Entry(FlagNames[k], "NO") }

C1_Witness ==
    /\ rets # <<>>
    /\ MpiResolved
    /\ spec.variants = ScenarioVariants
    /\ Len(rets[1].value) = 13
    /\ rets[1].value[4] = "-DBUILD_SHARED_LIBS=YES"
    /\ rets[1].value[13] = "-DPism_USE_EVERYTRACE=NO"

\* C2: each variant flag is "YES" exactly when its variant is true in the
\* resolution and "NO" otherwise; with all variants false all are "NO".
C2_YesIffTrue ==
    \A i \in DOMAIN rets :
        rets[i].ok =>
            \A k \in 1 .. 11 :
                rets[i].value[2 + k] =
                    Entry(FlagNames[k],
                          IF spec.variants[DeclaredOrder[k]] THEN "YES" ELSE "NO")

C2_Witness ==
    /\ rets # <<>>
    /\ rets[1].ok
    /\ \A v \in Variants : ~spec.variants[v]
    /\ \A k \in 1 .. 11 : rets[1].value[2 + k] = Entry(FlagNames[k], "NO")

\* the positions at which two lists of equal length differ
Differences(a, b) == { p \in DOMAIN a : a[p] # b[p] }

\* C3: turning one false variant on changes exactly one entry of the
\* argument list, that variant's flag, from "NO" to "YES".
C3_SingleVariantIsolation ==
    \A i \in DOMAIN rets :
        rets[i].ok =>
            \A k \in 1 .. 11 :
                ~spec.variants[DeclaredOrder[k]] =>
                    LET toggled == [spec EXCEPT !.variants[DeclaredOrder[k]] = TRUE]
                        before == rets[i].value
                        after == cmake_args_value(toggled).value
                    IN  /\ Len(after) = Len(before)
                        /\ Differences(before, after) = {2 + k}
                        /\ before[2 + k] = Entry(FlagNames[k], "NO")
                        /\ after[2 + k] = Entry(FlagNames[k], "YES")

C3_Witness ==
    /\ rets # <<>>
    /\ rets[1].ok
    /\ spec.variants = ScenarioVariants
    /\ rets[1].value[9] = "-DPism_USE_PNETCDF=NO"
    /\ cmake_args_value([spec EXCEPT !.variants["parallel-netcdf3"] = TRUE]).value[9]
         = "-DPism_USE_PNETCDF=YES"

\* C4: without a resolved mpi dependency cmake_args fails with the
\* missing-dependency error (KeyError) for every variant assignment and
\* produces no argument list, not even a partial one.
C4_MissingMpiRaises ==
    \A i \in DOMAIN rets :
        ~MpiResolved =>
            /\ ~rets[i].ok
            /\ rets[i].exc = "KeyError"
            /\ rets[i].value = <<>>

C4_Witness ==
    /\ rets # <<>>
    /\ ~MpiResolved
    /\ spec.variants = ScenarioVariants
    /\ rets[1].exc = "KeyError"

\* C5: a resolution lacking one or more declared variants is rejected by
\* cmake_args instead of getting a flag with a defaulted value.
C5_IncompleteRejected ==
    \A i \in DOMAIN rets :
        DOMAIN spec.variants # Variants => ~rets[i].ok

\* the packages the active declarations ask for
Required == { Declarations[i].pkg : i \in active }

Evaluated == active # {}

UnconditionalPackages ==
    { "fftw", "gsl", "mpi", "netcdf-c", "petsc", "udunits", "proj", "cmake" }

PythonPackages == { "python", "py-matplotlib", "py-numpy" }

\* C6 as stated: everytrace is required exactly when its variant is on and
\* every other declared dependency is required whatever the resolution.
C6_OnlyEverytraceConditional ==
    Evaluated =>
        /\ "everytrace" \in Required <=> spec.variants["everytrace"]
        /\ \A d \in UnconditionalPackages \cup PythonPackages : d \in Required

\* C6 amended: everytrace is required exactly when the everytrace variant
\* is on; python, py-matplotlib and py-numpy are required exactly when the
\* python variant is on; the other eight declared dependencies are always
\* required; no other variant and no release changes the set.
C6_RequiredDependencies ==
    Evaluated =>
        Required = UnconditionalPackages
                     \cup (IF spec.variants["everytrace"] THEN {"everytrace"} ELSE {})
                     \cup (IF spec.variants["python"] THEN PythonPackages ELSE {})

C6_Witness ==
    /\ Evaluated
    /\ spec.variants["everytrace"]
    /\ ~spec.variants["python"]
    /\ "everytrace" \in Required
    /\ "python" \notin Required

\* C7: setup_run_environment yields exactly two entries, PISM_PREFIX equal
\* to the install location and PISM_BIN equal to that location joined with
\* "bin"; it can always run, and the variants and dependency locations
\* play no part.
C7_RunEnvironment ==
    /\ ENABLED setup_run_environment
    /\ run_env # EmptyEnv =>
         /\ DOMAIN run_env = {"PISM_PREFIX", "PISM_BIN"}
         /\ run_env["PISM_PREFIX"] = prefix
         /\ run_env["PISM_BIN"] = prefix \o "/bin"

C7_Witness ==
    /\ run_env # EmptyEnv
    /\ spack_env # EmptyEnv
    /\ prefix = "/opt/pism"
    /\ run_env["PISM_PREFIX"] = "/opt/pism"
    /\ run_env["PISM_BIN"] = "/opt/pism/bin"
    /\ ~MpiResolved
    /\ spec.variants # ScenarioVariants

\* C8 as stated: the compiler flags are bin/mpicc and bin/mpicxx under the
\* location M the mpi dependency resolved to.
C8_WrappersUnderMpiPrefix ==
    \A i \in DOMAIN rets :
        rets[i].ok =>
            /\ rets[i].value[1] =
                 Entry("CMAKE_C_COMPILER", spec.deps["mpi"].prefix \o "/bin/mpicc")
            /\ rets[i].value[2] =
                 Entry("CMAKE_CXX_COMPILER", spec.deps["mpi"].prefix \o "/bin/mpicxx")

\* C8 amended: the compiler flags carry the mpicc and mpicxx attributes the
\* resolved mpi dependency publishes, which are M/bin/mpicc and
\* M/bin/mpicxx when the provider installs its wrappers under those names;
\* they depend on the mpi dependency alone, not on the variants.
C8_CompilersFromMpi ==
    \A i \in DOMAIN rets :
        rets[i].ok =>
            /\ rets[i].value[1] = Entry("CMAKE_C_COMPILER", spec.deps["mpi"].mpicc)
            /\ rets[i].value[2] = Entry("CMAKE_CXX_COMPILER", spec.deps["mpi"].mpicxx)
            /\ spec.deps["mpi"] = WrapperProvider(spec.deps["mpi"].prefix) =>
                 /\ rets[i].value[1] =
                      Entry("CMAKE_C_COMPILER", spec.deps["mpi"].prefix \o "/bin/mpicc")
                 /\ rets[i].value[2] =
                      Entry("CMAKE_CXX_COMPILER", spec.deps["mpi"].prefix \o "/bin/mpicxx")

C8_Witness ==
    /\ rets # <<>>
    /\ MpiResolved
    /\ spec.deps["mpi"].prefix = "/opt/mpi"
    /\ spec.variants = ScenarioVariants
    /\ rets[1].value[1] = "-DCMAKE_C_COMPILER=/opt/mpi/bin/mpicc"
    /\ rets[1].value[2] = "-DCMAKE_CXX_COMPILER=/opt/mpi/bin/mpicxx"

PythonNewer ==
    { i \in DOMAIN Declarations :
        Declarations[i].pkg = "python" /\ Declarations[i].constraint = "@2.7:2.8,3.3:" }

PythonOlder ==
    { i \in DOMAIN Declarations :
        Declarations[i].pkg = "python" /\ Declarations[i].constraint = "@2.7:2.8" }

\* C10: for every declared release and variant assignment no two active
\* declarations put different constraints on one package; of the two
\* python constraints exactly one is active when the python variant is on
\* and neither when it is off.
C10_NoConflictingDeclarations ==
    Evaluated =>
        /\ \A i, j \in active :
             (i # j /\ Declarations[i].pkg = Declarations[j].pkg) =>
                 (Declarations[i].constraint = "" \/ Declarations[j].constraint = "")
        /\ Cardinality(PythonNewer) = 1 /\ Cardinality(PythonOlder) = 1
        /\ Cardinality(active \cap (PythonNewer \cup PythonOlder)) =
             (IF spec.variants["python"] THEN 1 ELSE 0)

C10_Witness ==
    /\ Evaluated
    /\ spec.version = "icebin"
    /\ spec.variants["python"]
    /\ active \cap PythonOlder # {}
    /\ active \cap PythonNewer = {}
====
